---- MODULE Spec2Model ----
(***************************************************************************)
(* Model of verify_home.py: one run of verify_home_text_removed().         *)
(*                                                                         *)
(* The function is a straight line of calls (browser automation and        *)
(* print) wrapped in `with sync_playwright()`, an outer                    *)
(* try/except Exception/finally and an inner try/bare-except around the    *)
(* optional landing button.  Every call either returns or raises; what it  *)
(* raises is either an Exception subclass (TimeoutError, AssertionError,   *)
(* playwright Error, OSError of a print on a broken stdout) or a           *)
(* BaseException that is no Exception (KeyboardInterrupt, SystemExit),     *)
(* which the two handlers treat differently.                               *)
(*                                                                         *)
(* The state records the position in the function, the calls made so far   *)
(* with their outcomes, the exception in flight, the exception bound by    *)
(* the outer handler, the browser handle and the files on disk.            *)
(***************************************************************************)
EXTENDS Naturals, Sequences, FiniteSets

VARIABLES pc, log, pending, e, browser, files

vars == <<pc, log, pending, e, browser, files>>

\* The print() calls of the function, named by their source line.
Prints ==
    { "print11", "print18", "print21", "print24", "print28", "print33",
      "print35", "print38" }

\* The browser-automation calls of the function.  A locator construction
\* (get_by_role, get_by_text) is part of the call that follows it; "exit" is
\* the exit of the `with sync_playwright()` block.
BrowserCalls ==
    { "sync_playwright", "launch", "new_context", "new_page", "goto",
      "wait_for", "click", "expect_heading", "expect_absent",
      "screenshot_home", "screenshot_error", "close", "exit" }

\* The calls of the function.
Calls == BrowserCalls \cup Prints

\* What a raising call raises.
Kinds == { "Exception", "BaseException" }

\* What a call does: it returns, or it raises one of Kinds.
Outcomes == { "ok" } \cup Kinds

None == [call |-> "none", kind |-> "none"]

Raised(call, kind) == [call |-> call, kind |-> kind]

\* Paths of the two captures.
HOME_PNG == "verification_home.png"

ERROR_PNG == "verification_error.png"

----------------------------------------------------------------------------
\* The handlers.

\* `except:` around the landing-button step catches whatever is raised.
InnerCatches(kind) == TRUE

\* `except Exception as e:` around the main sequence.
OuterCatches(kind) == kind = "Exception"

\* The calls inside the inner try (lines 16-19).
InInnerTry(call) == call \in { "wait_for", "print18", "click" }

\* The calls inside the body of the outer try (lines 10-35), the inner try
\* and its handler included.
InOuterTry(call) ==
    call \in { "print11", "goto", "wait_for", "print18", "click", "print21",
               "print24", "expect_heading", "print28", "expect_absent",
               "print33", "screenshot_home", "print35" }

\* The calls inside the outer handler (lines 38-39).
InOuterHandler(call) == call \in { "print38", "screenshot_error" }

----------------------------------------------------------------------------
\* Control flow.

\* Mutant: the absence check left out.
OkNextNoAbsenceCheck(call) ==
    CASE call = "sync_playwright"  -> "launch"
      [] call = "launch"           -> "new_context"
      [] call = "new_context"      -> "new_page"
      [] call = "new_page"         -> "print11"
      [] call = "print11"          -> "goto"
      [] call = "goto"             -> "wait_for"
      [] call = "wait_for"         -> "print18"
      [] call = "print18"          -> "click"
      [] call = "click"            -> "print24"
      [] call = "print21"          -> "print24"
      [] call = "print24"          -> "expect_heading"
      [] call = "expect_heading"   -> "print33"
      [] call = "print28"          -> "expect_absent"
      [] call = "expect_absent"    -> "print33"
      [] call = "print33"          -> "screenshot_home"
      [] call = "screenshot_home"  -> "print35"
      [] call = "print35"          -> "close"
      [] call = "print38"          -> "screenshot_error"
      [] call = "screenshot_error" -> "close"
      [] call = "close"            -> "exit"
      [] call = "exit"             -> "done"

\* The statement reached when `call` returns.
OkNext(call) ==
    CASE call = "sync_playwright"  -> "launch"
      [] call = "launch"           -> "new_context"
      [] call = "new_context"      -> "new_page"
      [] call = "new_page"         -> "print11"
      [] call = "print11"          -> "goto"
      [] call = "goto"             -> "wait_for"
      [] call = "wait_for"         -> "print18"
      [] call = "print18"          -> "click"
      [] call = "click"            -> "print24"
      [] call = "print21"          -> "print24"
      [] call = "print24"          -> "expect_heading"
      [] call = "expect_heading"   -> "print28"
      [] call = "print28"          -> "expect_absent"
      [] call = "expect_absent"    -> "print33"
      [] call = "print33"          -> "screenshot_home"
      [] call = "screenshot_home"  -> "print35"
      [] call = "print35"          -> "close"
      [] call = "print38"          -> "screenshot_error"
      [] call = "screenshot_error" -> "close"
      [] call = "close"            -> "exit"
      [] call = "exit"             -> "done"

\* The statement reached when `call` raises `kind`: the innermost handler
\* that catches it, else the finally clause, else the exit of the with
\* block, else the caller.
RaiseNext(call, kind) ==
    IF InInnerTry(call) /\ InnerCatches(kind) THEN "print21"
    ELSE IF InOuterTry(call) THEN
        IF OuterCatches(kind) THEN "print38" ELSE "close"
    ELSE IF InOuterHandler(call) THEN "close"
    ELSE IF call \in { "launch", "new_context", "new_page", "close" } THEN "exit"
    ELSE "done"

\* Whether a handler of the function catches what `call` raises.
Caught(call, kind) ==
    \/ InInnerTry(call) /\ InnerCatches(kind)
    \/ InOuterTry(call) /\ OuterCatches(kind)

\* Whether what `call` raises is bound to `e` by the outer handler.
Binds(call, kind) ==
    /\ ~(InInnerTry(call) /\ InnerCatches(kind))
    /\ InOuterTry(call)
    /\ OuterCatches(kind)

----------------------------------------------------------------------------
\* Effects of the calls.

\* The path a capture writes.
Path(call) ==
    IF call = "screenshot_home" THEN HOME_PNG ELSE ERROR_PNG

\* The files on disk after `call` with outcome `out`.
FilesAfter(call, out) ==
    IF call \in { "screenshot_home", "screenshot_error" } /\ out = "ok"
    THEN files \cup { Path(call) }
    ELSE files

\* The browser handle after `call` with outcome `out`: launch yields an open
\* browser; close() is performed on it whatever close() then reports.
BrowserAfter(call, out) ==
    IF call = "launch" /\ out = "ok" THEN "open"
    ELSE IF call = "close" THEN "closed"
    ELSE browser

\* The exception in flight after `call` with outcome `out`.  A raising call
\* replaces whatever was in flight unless a handler catches it; the outer
\* handler ends with `raise e`; finally and the with exit leave it alone.
PendingAfter(call, out) ==
    IF out # "ok" THEN
        IF Caught(call, out) THEN None ELSE Raised(call, out)
    ELSE IF call = "screenshot_error" THEN e
    ELSE pending

\* The exception bound to `e`: bound on entry to the outer handler, unbound
\* when the handler is left (by `raise e` or by a call of the handler
\* raising).
BoundAfter(call, out) ==
    IF out # "ok" /\ Binds(call, out) THEN Raised(call, out)
    ELSE IF call = "screenshot_error" THEN None
    ELSE IF InOuterHandler(call) /\ out # "ok" THEN None
    ELSE e

\* One call of the function with one outcome.
Call(call, out) ==
    /\ pc = call
    /\ log' = Append(log, [call |-> call, out |-> out])
    /\ pc' = IF out = "ok" THEN OkNext(call) ELSE RaiseNext(call, out)
    /\ pending' = PendingAfter(call, out)
    /\ e' = BoundAfter(call, out)
    /\ browser' = BrowserAfter(call, out)
    /\ files' = FilesAfter(call, out)

----------------------------------------------------------------------------
\* The steps of verify_home_text_removed.

Init ==
    /\ pc = "sync_playwright"
    /\ log = << >>
    /\ pending = None
    /\ e = None
    /\ browser = "none"
    /\ files = {}

SyncPlaywright == \E out \in Outcomes : Call("sync_playwright", out)

Launch == \E out \in Outcomes : Call("launch", out)

NewContext == \E out \in Outcomes : Call("new_context", out)

NewPage == \E out \in Outcomes : Call("new_page", out)

PrintNavigating == \E out \in Outcomes : Call("print11", out)

Goto == \E out \in Outcomes : Call("goto", out)

WaitFor == \E out \in Outcomes : Call("wait_for", out)

PrintLandingDetected == \E out \in Outcomes : Call("print18", out)

Click == \E out \in Outcomes : Call("click", out)

PrintLandingNotDetected == \E out \in Outcomes : Call("print21", out)

PrintWaiting == \E out \in Outcomes : Call("print24", out)

ExpectHeading == \E out \in Outcomes : Call("expect_heading", out)

PrintVerifying == \E out \in Outcomes : Call("print28", out)

ExpectAbsent == \E out \in Outcomes : Call("expect_absent", out)

PrintTaking == \E out \in Outcomes : Call("print33", out)

ScreenshotHome == \E out \in Outcomes : Call("screenshot_home", out)

PrintComplete == \E out \in Outcomes : Call("print35", out)

PrintFailed == \E out \in Outcomes : Call("print38", out)

ScreenshotError == \E out \in Outcomes : Call("screenshot_error", out)

Close == \E out \in Outcomes : Call("close", out)

Exit == \E out \in Outcomes : Call("exit", out)

Next ==
    \/ SyncPlaywright
    \/ Launch
    \/ NewContext
    \/ NewPage
    \/ PrintNavigating
    \/ Goto
    \/ WaitFor
    \/ PrintLandingDetected
    \/ Click
    \/ PrintLandingNotDetected
    \/ PrintWaiting
    \/ ExpectHeading
    \/ PrintVerifying
    \/ ExpectAbsent
    \/ PrintTaking
    \/ ScreenshotHome
    \/ PrintComplete
    \/ PrintFailed
    \/ ScreenshotError
    \/ Close
    \/ Exit

Spec == Init /\ [][Next]_vars

\* No fairness is stated: the code sets no timeout on print(), on
\* browser.close() or on the exit of the with block, so a run may stay
\* inside a call for ever.

----------------------------------------------------------------------------
\* Observations on the record of calls.

Idx(call) == { i \in 1..Len(log) : log[i].call = call }

Count(call) == Cardinality(Idx(call))

Made(call) == Idx(call) # {}

Out(call, out) == \E i \in Idx(call) : log[i].out = out

Failed(call) == \E i \in Idx(call) : log[i].out # "ok"

Before(c1, c2) == \A i \in Idx(c1), j \in Idx(c2) : i < j

\* The first browser call made after the i-th call, if any was made yet.
NextBrowserCall(i) ==
    { j \in (i + 1)..Len(log) :
        /\ log[j].call \in BrowserCalls
        /\ \A k \in (i + 1)..(j - 1) : log[k].call \in Prints }

Done == pc = "done"

TypeOK ==
    /\ pc \in Calls \cup { "done" }
    /\ log \in Seq([call : Calls, out : Outcomes])
    /\ pending \in { None } \cup [call : Calls, kind : Kinds]
    /\ e \in { None } \cup [call : Calls, kind : Kinds]
    /\ browser \in { "none", "open", "closed" }
    /\ files \subseteq { HOME_PNG, ERROR_PNG }

----------------------------------------------------------------------------
\* Properties of a run.

\* The calls of the main sequence whose errors the outer handler is for.
MainSteps == { "goto", "expect_heading", "expect_absent", "screenshot_home" }

\* C1: a run that launched the browser ends with browser.close() performed
\* exactly once, whichever call after the launch raised (context and page
\* creation included).
C1_ClosedOnceOnEveryPath ==
    Done /\ Out("launch", "ok") => Count("close") = 1

\* C2: when navigation, the heading check, the absence check or the success
\* screenshot raises an error, verification_error.png is captured, then the
\* browser is closed, and the error the caller receives is the one that step
\* raised.
C2_OriginalErrorReachesCaller ==
    \A c \in MainSteps :
        Done /\ Out(c, "Exception") =>
            /\ ERROR_PNG \in files
            /\ Count("close") = 1
            /\ Before("screenshot_error", "close")
            /\ pending = Raised(c, "Exception")

\* C3: when the wait for the 'Start Learning' button returns, click() is
\* called exactly once, before the heading check; no click is ever made once
\* the heading check has started.
C3_ClickOnceBeforeHeading ==
    /\ Out("wait_for", "ok") /\ Made("expect_heading") => Count("click") = 1
    /\ Count("click") <= 1
    /\ Before("click", "expect_heading")

\* C4: a run in which the wait for the button times out makes no
\* click, does not hand the timeout to the caller or to the outer handler,
\* and its next browser call is the heading check.
C4_TimeoutThenHeadingCheck ==
    Done /\ Out("wait_for", "Exception") =>
        /\ ~Made("click")
        /\ pending.call # "wait_for"
        /\ e.call # "wait_for"
        /\ \A i \in Idx("wait_for") :
               /\ NextBrowserCall(i) # {}
               /\ \A j \in NextBrowserCall(i) : log[j].call = "expect_heading"

\* C5: a run in which the heading check and the absence check both
\* pass returns without error and has written verification_home.png.
C5_SuccessWheneverChecksPass ==
    Done /\ Out("expect_heading", "ok") /\ Out("expect_absent", "ok") =>
        /\ pending = None
        /\ HOME_PNG \in files

\* C6: a run whose absence check fails propagates an error, has
\* written verification_error.png and never attempts verification_home.png.
C6_ForbiddenTextWritesErrorPng ==
    Done /\ Out("expect_absent", "Exception") =>
        /\ pending # None
        /\ ERROR_PNG \in files
        /\ ~Made("screenshot_home")

\* C7: a run whose heading check fails propagates the error, has
\* written verification_error.png and performs neither the absence check nor
\* the verification_home.png capture.
C7_MissingHeadingWritesErrorPng ==
    Done /\ Out("expect_heading", "Exception") =>
        /\ pending # None
        /\ ERROR_PNG \in files
        /\ ~Made("expect_absent")
        /\ ~Made("screenshot_home")

\* C8: a run has exactly one final outcome, normal return or propagated
\* error, and whichever it is, the run ends with the browser closed: no run
\* ends with a launched browser on which close() was never performed.
C8_EndsWithBrowserClosed ==
    Done => /\ pending = None \/ pending \in [call : Calls, kind : Kinds]
            /\ browser # "open"

\* C9: a run in which the wait or the click raises does not hand
\* that error to the caller, and its next browser call is the heading check,
\* never the error screenshot.
C9_LandingErrorThenHeadingCheck ==
    \A c \in { "wait_for", "click" } :
        Done /\ Failed(c) =>
            /\ pending.call # c
            /\ \A i \in Idx(c) :
                   /\ NextBrowserCall(i) # {}
                   /\ \A j \in NextBrowserCall(i) :
                          log[j].call = "expect_heading"

\* C10 as stated: the two captures are exclusive by outcome, so no run
\* attempts both; verification_home.png is attempted only after navigation,
\* the heading check and the absence check returned, in that order; a run
\* that returns without error never attempted verification_error.png; and
\* verification_error.png is attempted only after a call inside the outer try
\* raised, never when browser, context or page acquisition failed.
C10_CapturesExclusive ==
    /\ ~(Made("screenshot_home") /\ Made("screenshot_error"))
    /\ Made("screenshot_home") =>
           /\ Out("goto", "ok")
           /\ Out("expect_heading", "ok")
           /\ Out("expect_absent", "ok")
    /\ Done /\ pending = None => ~Made("screenshot_error")
    /\ Made("screenshot_error") =>
           /\ \E c \in Calls : InOuterTry(c) /\ Failed(c)
           /\ Out("new_page", "ok")

\* C10, amended: the captures follow the outcome, but one run can attempt
\* both.  verification_home.png is attempted at most once and only after
\* navigation, the heading check and the absence check returned, in that
\* order; verification_error.png is attempted at most once, only after a call
\* inside the outer try raised an Exception, never when browser, context or
\* page acquisition failed, and only in runs that end with an error; both are
\* attempted in one run exactly in the runs where the verification_home.png
\* capture or the print after it raised an Exception and the print of the
\* handler returned, and both files exist only when it was that print.
C10_CapturesByOutcome ==
    /\ Made("screenshot_home") \/ pc = "screenshot_home" =>
           /\ Out("goto", "ok")
           /\ Out("expect_heading", "ok")
           /\ Out("expect_absent", "ok")
           /\ Before("goto", "expect_heading")
           /\ Before("expect_heading", "expect_absent")
           /\ Before("expect_absent", "screenshot_home")
    /\ Done /\ Made("screenshot_error") => pending # None
    /\ Made("screenshot_error") \/ pc = "screenshot_error" =>
           /\ \E c \in Calls :
                  /\ InOuterTry(c)
                  /\ Out(c, "Exception")
                  /\ Before(c, "screenshot_error")
           /\ Out("launch", "ok")
           /\ Out("new_context", "ok")
           /\ Out("new_page", "ok")
    /\ Count("screenshot_home") <= 1
    /\ Count("screenshot_error") <= 1
    /\ Made("screenshot_home") /\ Made("screenshot_error") <=>
           /\ Out("screenshot_home", "Exception") \/ Out("print35", "Exception")
           /\ Out("print38", "ok")
           /\ Made("screenshot_error")
    /\ files = { HOME_PNG, ERROR_PNG } => Out("print35", "Exception")

C10_Witness ==
    /\ Done
    /\ Out("screenshot_home", "ok")
    /\ Out("print35", "Exception")
    /\ Out("screenshot_error", "ok")
    /\ pending = Raised("print35", "Exception")
    /\ files = { HOME_PNG, ERROR_PNG }

====
